---- MODULE Spec2Model ----
(***************************************************************************)
(* The live transcription relay (setupDeepgramWebSocket): one client       *)
(* WebSocket connection, the upstream recognition sockets it creates, the  *)
(* drain timers it arms and the transcript it accumulates.  Every handler  *)
(* of the relay is one action; the event loop runs a handler to completion *)
(* before the next one starts.                                             *)
(***************************************************************************)
EXTENDS Integers, Sequences, FiniteSets, TLC

\* ------------------------------------------------------------ bounds
\* upstream sockets one client connection may create (one per `start`)
MaxHandles == 2
\* messages recorded as sent to the client
MaxOut == 3
\* recognition events recorded since the last `start`
MaxEvents == 2
\* writes recorded per upstream socket
MaxWrites == 2

Handles == 1..MaxHandles

\* ------------------------------------------------------------ text
\* A string is the sequence of its characters.

WhiteSpace == {" ", "\n", "\t"}

RECURSIVE TrimStart(_)
TrimStart(s) ==
  IF s = <<>> THEN s
  ELSE IF Head(s) \in WhiteSpace THEN TrimStart(Tail(s)) ELSE s

RECURSIVE TrimEnd(_)
TrimEnd(s) ==
  IF s = <<>> THEN s
  ELSE IF s[Len(s)] \in WhiteSpace THEN TrimEnd(SubSeq(s, 1, Len(s) - 1)) ELSE s

\* String.prototype.trim
Trim(s) == TrimEnd(TrimStart(s))

\* JavaScript truthiness of a string
Truthy(s) == s # <<>>

\* ------------------------------------------------------------ state
VARIABLES
  clientWs,        \* readyState of the client socket: "OPEN", "CLOSING", "CLOSED"
  deepgramWs,      \* the connection's `deepgramWs` variable: 0 (null) or a handle
  fullTranscript,  \* the connection's `fullTranscript` variable
  sockets,         \* the upstream WebSocket objects created so far, by handle
  timers,          \* pending drain timers, oldest first
  clientOut,       \* messages the client socket accepted, in order
  lateSend,        \* clientWs.send was called after the client socket left OPEN
  eventLog,        \* recognition events handled since the last `start`
  streamed,        \* binary frames received while streaming, since the last `start`
  ignored,         \* the last client frame that had no effect: "text", "audio" or "none"
  peer,            \* the state of the other client connection of the server
  serving          \* the connection ("first" or "second") the variables above belong to

vars == <<clientWs, deepgramWs, fullTranscript, sockets, timers, clientOut,
          lateSend, eventLog, streamed, ignored, peer, serving>>

\* a handle no `start` has created yet
NoSocket ==
  [readyState |-> "NONE", language |-> "", requested |-> "", sent |-> <<>>,
   opened |-> FALSE]

\* handles created so far; `start` creates them in order
Created == {h \in Handles : sockets[h].readyState # "NONE"}
NumCreated == Cardinality(Created)

\* upstream sockets that are connecting or open
Alive == {h \in Handles : sockets[h].readyState \in {"CONNECTING", "OPEN"}}

\* `deepgramWs && deepgramWs.readyState === WebSocket.OPEN`
UpstreamOpen == deepgramWs # 0 /\ sockets[deepgramWs].readyState = "OPEN"

\* the state a connection starts with
NewConnection ==
  [clientWs |-> "OPEN", deepgramWs |-> 0, fullTranscript |-> <<>>,
   sockets |-> [h \in Handles |-> NoSocket], timers |-> <<>>,
   clientOut |-> <<>>, lateSend |-> FALSE, eventLog |-> <<>>,
   streamed |-> <<>>, ignored |-> "none"]

Init ==
  /\ clientWs = NewConnection.clientWs
  /\ deepgramWs = NewConnection.deepgramWs
  /\ fullTranscript = NewConnection.fullTranscript
  /\ sockets = NewConnection.sockets
  /\ timers = NewConnection.timers
  /\ clientOut = NewConnection.clientOut
  /\ lateSend = NewConnection.lateSend
  /\ eventLog = NewConnection.eventLog
  /\ streamed = NewConnection.streamed
  /\ ignored = NewConnection.ignored
  /\ peer = NewConnection
  /\ serving = "first"

\* ------------------------------------------------------------ messages
\* An outbound JSON message; `rec` is the number of `start`s processed when it
\* was sent (the recording it belongs to).
Msg(type, transcript, isFinal, speechFinal, full, message) ==
  [type |-> type, transcript |-> transcript, isFinal |-> isFinal,
   speechFinal |-> speechFinal, fullTranscript |-> full, message |-> message,
   rec |-> NumCreated]

ReadyMsg == Msg("ready", <<>>, FALSE, FALSE, <<>>, "")
TranscriptMsg(t, f, sf, full) == Msg("transcript", t, f, sf, full, "")
StoppedMsg(full) == Msg("stopped", <<>>, FALSE, FALSE, full, "")
ErrorMsg == Msg("error", <<>>, FALSE, FALSE, <<>>, "Transcription service error")

\* a faulty send: the message goes to the clients of both connections
Broadcast(m) ==
  /\ IF clientWs = "OPEN"
     THEN /\ Len(clientOut) < MaxOut
          /\ clientOut' = Append(clientOut, m)
          /\ UNCHANGED lateSend
     ELSE /\ lateSend' = TRUE
          /\ UNCHANGED clientOut
  /\ peer' = [peer EXCEPT !.clientOut = Append(@, m)]

\* clientWs.send(m): delivered while the client socket is OPEN, otherwise the
\* call fails silently (ws drops a send on a closing or closed socket).
Send(m) ==
  /\ IF clientWs = "OPEN"
     THEN /\ Len(clientOut) < MaxOut
          /\ clientOut' = Append(clientOut, m)
          /\ UNCHANGED lateSend
     ELSE /\ lateSend' = TRUE
          /\ UNCHANGED clientOut
  /\ UNCHANGED peer

\* deepgramWs.close() on an OPEN socket
CloseUpstream ==
  IF UpstreamOpen
  THEN sockets' = [sockets EXCEPT ![deepgramWs].readyState = "CLOSING"]
  ELSE UNCHANGED sockets

\* deepgramWs.send(x) on an OPEN socket
WriteUpstream(x) ==
  /\ Len(sockets[deepgramWs].sent) < MaxWrites
  /\ sockets' = [sockets EXCEPT ![deepgramWs].sent = Append(@, x)]

\* a `stop` was processed since the last `start`: it always answers `stopped`
StopSeen ==
  \E i \in 1..Len(clientOut) :
    clientOut[i].type = "stopped" /\ clientOut[i].rec = NumCreated

\* the recording is streaming: its upstream socket is open and no `stop` came
Streaming == UpstreamOpen /\ ~StopSeen

\* ------------------------------------------------------------ aggregator
\* a faulty separator: every final fragment starts a new line
NewlineSeparator(speechFinal) == "\n"

\* a faulty separator: every final fragment is joined with a space
SpaceSeparator(speechFinal) == " "

\* the separator chosen for a final fragment
Separator(speechFinal) == IF speechFinal THEN "\n" ELSE " "

\* a faulty append: the fragment replaces the transcript
AssignFinal(full, transcript, speechFinal) == transcript

\* a faulty append: the separator is written before every fragment
AppendSeparated(full, transcript, speechFinal) ==
  full \o <<Separator(speechFinal)>> \o transcript

\* the append of a final fragment
AppendFinal(full, transcript, speechFinal) ==
  full \o (IF Truthy(full) THEN <<Separator(speechFinal)>> ELSE <<>>) \o transcript

\* a faulty guard: `if (transcript)`, without the trim
NonEmpty(transcript) == Truthy(transcript)

\* the guard `if (transcript.trim())`
NonBlank(transcript) == Truthy(Trim(transcript))

\* a faulty update: interim fragments are appended as well
AggregateAll(full, ev) ==
  IF NonBlank(ev.transcript)
  THEN AppendFinal(full, ev.transcript, ev.speechFinal)
  ELSE full

\* fullTranscript after one recognition event
Aggregate(full, ev) ==
  IF NonBlank(ev.transcript) /\ ev.isFinal
  THEN AppendFinal(full, ev.transcript, ev.speechFinal)
  ELSE full

\* the fold of Aggregate over a sequence of events, from the empty transcript
RECURSIVE Replay(_)
Replay(evs) ==
  IF evs = <<>> THEN <<>>
  ELSE Aggregate(Replay(SubSeq(evs, 1, Len(evs) - 1)), evs[Len(evs)])

\* ------------------------------------------------------------ inputs
\* the `language` of a `start` message; Undefined is a message without one
Undefined == "undefined"
Languages == {Undefined, "en", "xx"}

\* binary frames the client sends
AudioFrames == {"pcm1", "pcm2"}

\* text frames that are not a `start` or a `stop`
OtherTexts == {"not json", "{\"type\":\"strt\"}", "null"}

\* an upstream message: a Results message with its first alternative, if any
Results(hasAlt, hasTranscript, transcript, isFinal, speechFinal) ==
  [type |-> "Results", hasAlt |-> hasAlt, hasTranscript |-> hasTranscript,
   transcript |-> transcript, is_final |-> isFinal, speech_final |-> speechFinal]

\* upstream messages that carry no recognition event
Metadata == [Results(FALSE, FALSE, <<>>, FALSE, FALSE) EXCEPT !.type = "Metadata"]
Unparsable == [Results(FALSE, FALSE, <<>>, FALSE, FALSE) EXCEPT !.type = "not json"]
NoAlternative == Results(FALSE, FALSE, <<>>, FALSE, FALSE)
NoTranscript == Results(TRUE, FALSE, <<>>, TRUE, TRUE)

ResultsOf(fragments) ==
  {Results(TRUE, TRUE, t, f, sf) : t \in fragments, f \in BOOLEAN, sf \in BOOLEAN}

\* the upstream messages of the relay specification
Fragments == {<<"a">>}
UpstreamMessages ==
  {m \in ResultsOf(Fragments) : m.speech_final => m.is_final} \cup {Metadata}

\* the upstream messages of the aggregator specification: the fragments of the
\* documented scenarios, a whitespace-only fragment, and the messages that
\* carry no usable text
INeed == <<"I", " ", "n", "e", "e", "d">>
HelpToday == <<"h", "e", "l", "p", " ", "t", "o", "d", "a", "y">>
AggFragments == {INeed, HelpToday, <<"\t", "\n">>}
AggMessages ==
  ResultsOf(AggFragments) \cup {Metadata, Unparsable, NoAlternative, NoTranscript}

\* ------------------------------------------------------------ client handlers
\* a faulty `start` handler: the transcript of the previous recording is kept
ClientStartKeepTranscript(language) ==
  /\ clientWs = "OPEN"
  /\ NumCreated < MaxHandles
  /\ LET h == NumCreated + 1
         lang == IF language = Undefined THEN "en" ELSE language
     IN /\ sockets' = [sockets EXCEPT ![h] =
                         [readyState |-> "CONNECTING", language |-> lang,
                          requested |-> language, sent |-> <<>>,
                          opened |-> FALSE]]
        /\ deepgramWs' = h
  /\ eventLog' = <<>>
  /\ streamed' = <<>>
  /\ UNCHANGED <<clientWs, fullTranscript, timers, clientOut, lateSend, ignored,
                 peer, serving>>

\* clientWs.on('message'), text frame {"type":"start","language":language}
ClientStart(language) ==
  /\ clientWs = "OPEN"
  /\ NumCreated < MaxHandles
  /\ fullTranscript' = <<>>
  /\ LET h == NumCreated + 1
         lang == IF language = Undefined THEN "en" ELSE language
     IN /\ sockets' = [sockets EXCEPT ![h] =
                         [readyState |-> "CONNECTING", language |-> lang,
                          requested |-> language, sent |-> <<>>,
                          opened |-> FALSE]]
        /\ deepgramWs' = h
  /\ eventLog' = <<>>
  /\ streamed' = <<>>
  /\ UNCHANGED <<clientWs, timers, clientOut, lateSend, ignored, peer, serving>>

\* a faulty `stop` branch: the upstream socket is closed at once
ClientStopHardClose ==
  /\ clientWs = "OPEN"
  /\ IF UpstreamOpen
     THEN sockets' = [sockets EXCEPT ![deepgramWs].readyState = "CLOSED"]
     ELSE UNCHANGED sockets
  /\ Send(StoppedMsg(fullTranscript))
  /\ UNCHANGED <<clientWs, deepgramWs, fullTranscript, timers, eventLog, streamed,
                 ignored, serving>>

\* clientWs.on('message'), text frame {"type":"stop"}
ClientStop ==
  /\ clientWs = "OPEN"
  /\ IF UpstreamOpen
     THEN /\ WriteUpstream("CloseStream")
          /\ timers' = Append(timers, deepgramWs)
     ELSE UNCHANGED <<sockets, timers>>
  /\ Send(StoppedMsg(fullTranscript))
  /\ UNCHANGED <<clientWs, deepgramWs, fullTranscript, eventLog, streamed, ignored,
                 serving>>

\* JSON.parse(text) and the read of `message.type`: the type found, or the
\* exception thrown on the way
MessageType(text) ==
  CASE text = "not json" -> "SyntaxError"
    [] text = "null" -> "TypeError"
    [] text = "{\"type\":\"strt\"}" -> "strt"
    [] text = "{\"type\":\"stop\"}" -> "stop"
    [] OTHER -> "undefined"

\* a faulty text branch: whatever parses and is not a `start` is taken as a `stop`
ClientTextElseStop(text) ==
  /\ clientWs = "OPEN"
  /\ text \in OtherTexts
  /\ ignored' = "text"
  /\ IF MessageType(text) \in {"SyntaxError", "TypeError"}
     THEN UNCHANGED <<sockets, timers, clientOut, lateSend, peer>>
     ELSE /\ IF UpstreamOpen
             THEN /\ WriteUpstream("CloseStream")
                  /\ timers' = Append(timers, deepgramWs)
             ELSE UNCHANGED <<sockets, timers>>
          /\ Send(StoppedMsg(fullTranscript))
  /\ UNCHANGED <<clientWs, deepgramWs, fullTranscript, eventLog, streamed, serving>>

\* clientWs.on('message'), text frame that is not JSON or has another type:
\* neither branch is taken, or the exception is caught and dropped
ClientText(text) ==
  /\ clientWs = "OPEN"
  /\ text \in OtherTexts
  /\ MessageType(text) \notin {"start", "stop"}
  /\ ignored' = "text"
  /\ UNCHANGED <<clientWs, deepgramWs, fullTranscript, sockets, timers, clientOut,
                 lateSend, eventLog, streamed, peer, serving>>

\* a faulty binary branch: a frame that arrives while the upstream socket is
\* connecting is written to it anyway
ClientAudioEarly(data) ==
  /\ clientWs = "OPEN"
  /\ IF UpstreamOpen
     THEN WriteUpstream(data) /\ UNCHANGED ignored
     ELSE /\ ignored' = "audio"
          /\ IF deepgramWs \in Alive THEN WriteUpstream(data) ELSE UNCHANGED sockets
  /\ streamed' = IF Streaming THEN Append(streamed, data) ELSE streamed
  /\ UNCHANGED <<clientWs, deepgramWs, fullTranscript, timers, clientOut,
                 lateSend, eventLog, peer, serving>>

\* clientWs.on('message'), binary frame
ClientAudio(data) ==
  /\ clientWs = "OPEN"
  /\ IF UpstreamOpen
     THEN WriteUpstream(data) /\ UNCHANGED ignored
     ELSE ignored' = "audio" /\ UNCHANGED sockets
  /\ streamed' = IF Streaming THEN Append(streamed, data) ELSE streamed
  /\ UNCHANGED <<clientWs, deepgramWs, fullTranscript, timers, clientOut,
                 lateSend, eventLog, peer, serving>>

\* clientWs.on('close')
ClientClose ==
  /\ clientWs \in {"OPEN", "CLOSING"}
  /\ clientWs' = "CLOSED"
  /\ CloseUpstream
  /\ UNCHANGED <<deepgramWs, fullTranscript, timers, clientOut, lateSend, eventLog,
                 streamed, ignored, peer, serving>>

\* clientWs.on('error'); the socket's 'close' follows
ClientError ==
  /\ clientWs = "OPEN"
  /\ clientWs' = "CLOSING"
  /\ CloseUpstream
  /\ UNCHANGED <<deepgramWs, fullTranscript, timers, clientOut, lateSend, eventLog,
                 streamed, ignored, peer, serving>>

\* the setTimeout callback armed by `stop`; it reads `deepgramWs` when it runs
TimerFire ==
  /\ timers # <<>>
  /\ timers' = Tail(timers)
  /\ CloseUpstream
  /\ UNCHANGED <<clientWs, deepgramWs, fullTranscript, clientOut, lateSend, eventLog,
                 streamed, ignored, peer, serving>>

\* ------------------------------------------------------------ upstream handlers
\* deepgramWs.on('open') of socket h
DgOpen(h) ==
  /\ sockets[h].readyState = "CONNECTING"
  /\ sockets' = [sockets EXCEPT ![h].readyState = "OPEN", ![h].opened = TRUE]
  /\ Send(ReadyMsg)
  /\ UNCHANGED <<clientWs, deepgramWs, fullTranscript, timers, eventLog, streamed,
                 ignored, serving>>

\* deepgramWs.on('message') of socket h; a socket still delivers messages after
\* the relay called close() on it, until the peer's close frame arrives
DgMessage(h, response) ==
  /\ sockets[h].readyState \in {"OPEN", "CLOSING"}
  /\ IF response.type = "Results" /\ response.hasAlt
     THEN LET transcript == IF response.hasTranscript THEN response.transcript ELSE <<>>
              ev == [transcript |-> transcript, isFinal |-> response.is_final,
                     speechFinal |-> response.speech_final]
          IN /\ Len(eventLog) < MaxEvents
             /\ eventLog' = Append(eventLog, ev)
             /\ fullTranscript' = Aggregate(fullTranscript, ev)
             /\ IF NonBlank(transcript)
                THEN Send(TranscriptMsg(transcript, ev.isFinal, ev.speechFinal,
                                        fullTranscript'))
                ELSE UNCHANGED <<clientOut, lateSend, peer>>
     ELSE UNCHANGED <<fullTranscript, clientOut, lateSend, eventLog, peer>>
  /\ UNCHANGED <<clientWs, deepgramWs, sockets, timers, streamed, ignored, serving>>

\* deepgramWs.on('error') of socket h: a failed handshake or a broken
\* connection; the socket is closed by it and delivers nothing more
DgError(h) ==
  /\ sockets[h].readyState \in {"CONNECTING", "OPEN", "CLOSING"}
  /\ sockets' = [sockets EXCEPT ![h].readyState = "CLOSED"]
  /\ Send(ErrorMsg)
  /\ UNCHANGED <<clientWs, deepgramWs, fullTranscript, timers, eventLog, streamed,
                 ignored, serving>>

\* deepgramWs.on('close') of socket h: the peer closed, or answered close()
DgClose(h) ==
  /\ sockets[h].readyState \in {"OPEN", "CLOSING"}
  /\ sockets' = [sockets EXCEPT ![h].readyState = "CLOSED"]
  /\ UNCHANGED <<clientWs, deepgramWs, fullTranscript, timers, clientOut,
                 lateSend, eventLog, streamed, ignored, peer, serving>>

\* ------------------------------------------------------------ specification
Next ==
  \/ \E language \in Languages : ClientStart(language)
  \/ ClientStop
  \/ \E text \in OtherTexts : ClientText(text)
  \/ \E data \in AudioFrames : ClientAudio(data)
  \/ ClientClose
  \/ ClientError
  \/ TimerFire
  \/ \E h \in Handles : DgOpen(h)
  \/ \E h \in Handles, response \in UpstreamMessages : DgMessage(h, response)
  \/ \E h \in Handles : DgError(h)
  \/ \E h \in Handles : DgClose(h)

Spec == Init /\ [][Next]_vars

\* the aggregator specification: one connection's `start` and `stop` messages
\* and the recognition events of its upstream sockets, with the fragments
\* spelled out
NextAgg ==
  \/ ClientStart("en")
  \/ ClientStop
  \/ \E h \in Handles : DgOpen(h)
  \/ \E h \in Handles, response \in AggMessages : DgMessage(h, response)

SpecAgg == Init /\ [][NextAgg]_vars

\* the state of the connection being served, as a record
Connection ==
  [clientWs |-> clientWs, deepgramWs |-> deepgramWs,
   fullTranscript |-> fullTranscript, sockets |-> sockets, timers |-> timers,
   clientOut |-> clientOut, lateSend |-> lateSend, eventLog |-> eventLog,
   streamed |-> streamed, ignored |-> ignored]

\* the event loop turns to an event of the other connection: each
\* wss.on('connection') call has its own clientWs, deepgramWs and fullTranscript
Switch ==
  /\ serving' = IF serving = "first" THEN "second" ELSE "first"
  /\ peer' = Connection
  /\ clientWs' = peer.clientWs
  /\ deepgramWs' = peer.deepgramWs
  /\ fullTranscript' = peer.fullTranscript
  /\ sockets' = peer.sockets
  /\ timers' = peer.timers
  /\ clientOut' = peer.clientOut
  /\ lateSend' = peer.lateSend
  /\ eventLog' = peer.eventLog
  /\ streamed' = peer.streamed
  /\ ignored' = peer.ignored

\* the two-connection specification: two clients of the same server, each
\* with its recordings, its timers and its upstream sockets
TwoMessages == {Results(TRUE, TRUE, <<"a">>, TRUE, TRUE)}
NextTwo ==
  \/ Switch
  \/ ClientStart("en")
  \/ ClientStop
  \/ ClientAudio("pcm1")
  \/ TimerFire
  \/ \E h \in Handles : DgOpen(h)
  \/ \E h \in Handles, response \in TwoMessages : DgMessage(h, response)

SpecTwo == Init /\ [][NextTwo]_vars

\* ------------------------------------------------------------ properties
IsPrefix(s, t) == Len(s) <= Len(t) /\ SubSeq(t, 1, Len(s)) = s

OutIndex == 1..Len(clientOut)

\* every character of t is whitespace (t may be empty)
AllWhiteSpace(t) == \A i \in 1..Len(t) : t[i] \in WhiteSpace

Event(t, f, sf) == [transcript |-> t, isFinal |-> f, speechFinal |-> sf]

\* C1: once the end-of-stream signal was written to an upstream socket (the
\* `stop` was processed), no audio frame is written to that socket after it.
C1_NoForwardAfterStop ==
  \A h \in Handles : \A i, j \in 1..Len(sockets[h].sent) :
    (i < j /\ sockets[h].sent[i] = "CloseStream") => sockets[h].sent[j] \notin AudioFrames

\* C2: `stopped` is the last message of the connection: no `ready`,
\* `transcript` or `error` follows a `stopped`.
C2_StoppedIsLast ==
  \A i, j \in OutIndex :
    (i < j /\ clientOut[i].type = "stopped")
      => clientOut[j].type \notin {"ready", "transcript", "error"}

\* C3: a recording never gets both terminal messages, a `stopped` and an
\* `error`.
C3_OneTerminalMessage ==
  \A i, j \in OutIndex :
    clientOut[i].rec = clientOut[j].rec
      => ~(clientOut[i].type = "stopped" /\ clientOut[j].type = "error")

\* C4: the `stopped` message of the current recording, stopped while its
\* upstream socket was open, carries the final canonical transcript: every
\* final fragment delivered after the `stop` is in it.
C4_StoppedCarriesFinalTranscript ==
  \A i \in OutIndex :
    (/\ clientOut[i].type = "stopped"
     /\ clientOut[i].rec = NumCreated
     /\ deepgramWs # 0
     /\ sockets[deepgramWs].sent # <<>>
     /\ sockets[deepgramWs].sent[Len(sockets[deepgramWs].sent)] = "CloseStream")
      => clientOut[i].fullTranscript = fullTranscript

\* C5: at most one upstream socket of the connection is connecting or open.
C5_OneUpstreamAlive == Cardinality(Alive) <= 1

\* C6 as claimed: no step shortens the canonical transcript; the old value is
\* a prefix of the new one.
C6_NeverShortened == [][IsPrefix(fullTranscript, fullTranscript')]_vars

\* C6 as amended: a step either keeps the old transcript as a prefix of the new
\* one, or it is the processing of a `start`, which empties the transcript.
C6_ShortenedOnlyByStart ==
  [][IsPrefix(fullTranscript, fullTranscript')
     \/ (NumCreated' = NumCreated + 1 /\ fullTranscript' = <<>>)]_vars

\* C6 witness: a second recording whose transcript grew by two final fragments.
C6_Witness ==
  /\ NumCreated = 2
  /\ Len(eventLog) = 2
  /\ \A k \in 1..2 : eventLog[k].isFinal /\ NonBlank(eventLog[k].transcript)
  /\ eventLog[1].transcript # eventLog[2].transcript
  /\ Len(fullTranscript) > Len(eventLog[1].transcript)

\* C7: the canonical transcript is the replay, on an empty transcript, of the
\* recognition events received since the last `start`, whatever audio frames,
\* timers, client messages and socket events came in between.
C7_TranscriptIsReplay == fullTranscript = Replay(eventLog)

\* C7 witness: two final events were applied around forwarded audio, a `stop`,
\* its timer and the close of the upstream socket.
C7_Witness ==
  /\ timers = <<>>
  /\ Len(eventLog) = 2
  /\ eventLog[1].isFinal /\ eventLog[2].isFinal
  /\ Len(fullTranscript) = 3
  /\ \E h \in Handles :
       /\ sockets[h].readyState = "CLOSING"
       /\ sockets[h].sent = <<"pcm1", "CloseStream">>

\* C8: ("I need", final, not speech-final) then ("help today", final,
\* speech-final) gives "I need help today".
C8_SpaceJoinedScenario ==
  eventLog = <<Event(INeed, TRUE, FALSE), Event(HelpToday, TRUE, TRUE)>>
    => fullTranscript = INeed \o <<" ">> \o HelpToday

\* C9: the step that handles an empty or whitespace-only fragment leaves the
\* canonical transcript alone and sends nothing to the client, whatever the
\* fragment's flags.
C9_BlankFragmentDropped ==
  [][(Len(eventLog') = Len(eventLog) + 1
      /\ AllWhiteSpace(eventLog'[Len(eventLog')].transcript))
     => UNCHANGED <<fullTranscript, clientOut, lateSend>>]_vars

\* C9 witness: a final whitespace-only fragment was handled after a settled one.
C9_Witness ==
  /\ Len(eventLog) = 2
  /\ eventLog[1] = Event(INeed, TRUE, TRUE)
  /\ eventLog[2] = Event(<<"\t", "\n">>, TRUE, TRUE)
  /\ fullTranscript = INeed
  /\ Len(clientOut) = 2

\* of the languages a `start` may carry here, the one that is a language code
ValidLanguages == {"en"}

\* C10: no upstream socket is created for a `start` whose language is missing
\* or invalid.
C10_InvalidLanguageRejected ==
  \A h \in Created : sockets[h].requested \in ValidLanguages


\* C11: the wait for the upstream handshake is bounded: while an upstream
\* socket is connecting, the relay holds a pending timer that will end the wait.
C11_HandshakeBounded ==
  \A h \in Handles : sockets[h].readyState = "CONNECTING" => timers # <<>>

\* C12: after a `stop`, while the upstream socket of the recording is still
\* connecting or open, a grace timer is pending that will force it closed.
C12_DrainBounded ==
  (StopSeen /\ deepgramWs \in Alive) => timers # <<>>

\* C13: once the client socket has closed or failed, no upstream socket of the
\* connection is connecting or open.
C13_TeardownOnClientClose ==
  clientWs \in {"CLOSING", "CLOSED"} => Alive = {}

\* C14: the relay never calls clientWs.send after the client socket has closed
\* or failed.
C14_NoSendAfterClientClose == ~lateSend


\* the binary frames among the writes an upstream socket received, in order
IsAudio(x) == x \in AudioFrames
AudioWrites(h) == SelectSeq(sockets[h].sent, IsAudio)

\* C15: the audio writes received by the upstream socket of the recording are
\* the frames the client sent while the recording was streaming (between
\* `ready` and `stop`), each once and in the order received.
C15_ForwardedIsStreamed ==
  deepgramWs # 0 => AudioWrites(deepgramWs) = streamed


\* C16: the step that handles a text frame which is not JSON, or whose type is
\* neither `start` nor `stop`, changes nothing of the connection: its client
\* and upstream sockets, the writes they received, the timers, the canonical
\* transcript and the messages sent to the client are what they were.
C16_OtherTextIgnored ==
  [][(ignored # "text" /\ ignored' = "text") =>
       UNCHANGED <<clientWs, deepgramWs, fullTranscript, sockets, timers,
                   clientOut, lateSend, eventLog, streamed>>]_vars

\* C16 witness: such a frame was handled while the recording was streaming,
\* after a forwarded frame and a settled fragment.
C16_Witness ==
  /\ ignored = "text"
  /\ Streaming
  /\ streamed # <<>>
  /\ fullTranscript # <<>>


\* the transcript page of the client: what it holds before any message
UiInit == [fullTranscript |-> <<>>, interimText |-> <<>>]

\* ws.onmessage of the page: a `transcript` that is final and speech-final
\* replaces the settled text and clears the interim text, any other
\* `transcript` replaces the interim text; `stopped` replaces the settled text
UiOnMessage(ui, data) ==
  CASE data.type = "transcript" ->
         IF data.speechFinal /\ data.isFinal
         THEN [fullTranscript |-> data.fullTranscript, interimText |-> <<>>]
         ELSE [ui EXCEPT !.interimText = data.transcript]
    [] data.type = "stopped" ->
         [ui EXCEPT !.fullTranscript = data.fullTranscript]
    [] OTHER -> ui

\* the page after the messages msgs, in the order received
RECURSIVE Ui(_)
Ui(msgs) ==
  IF msgs = <<>> THEN UiInit
  ELSE UiOnMessage(Ui(SubSeq(msgs, 1, Len(msgs) - 1)), msgs[Len(msgs)])

\* C17: once the relay has sent the `transcript` message of a settled
\* (final) fragment, the client holds no interim text: the fragment is shown
\* as settled text only.
C17_ProvisionalExclusive ==
  (/\ clientOut # <<>>
   /\ clientOut[Len(clientOut)].type = "transcript"
   /\ clientOut[Len(clientOut)].isFinal)
    => Ui(clientOut).interimText = <<>>


\* C18: a handler that runs for one connection (a client message, an upstream
\* event or a timer) leaves the other connection as it was: its canonical
\* transcript, its upstream sockets and timers, and the messages sent to its
\* client.
C18_SessionsIsolated == [][serving' = serving => peer' = peer]_vars

\* C18 witness: the second connection streamed a frame and settled a fragment
\* while the first one, with a transcript of its own, was draining.
C18_Witness ==
  /\ serving = "second"
  /\ peer.fullTranscript # <<>>
  /\ peer.timers # <<>>
  /\ peer.deepgramWs \in {h \in Handles : peer.sockets[h].readyState = "OPEN"}
  /\ Streaming
  /\ streamed # <<>>
  /\ fullTranscript # <<>>


\* the recognition event a step has handled, if it handled one
Handled == eventLog'[Len(eventLog')]
HandlesEvent == Len(eventLog') = Len(eventLog) + 1

\* C19: the step that handles an interim event with a non-blank fragment leaves
\* the canonical transcript as it was and sends one `transcript` message, not
\* final, that carries the fragment and the transcript as it was before.
C19_InterimLeavesTranscript ==
  [][(HandlesEvent /\ ~Handled.isFinal /\ NonBlank(Handled.transcript)) =>
       /\ fullTranscript' = fullTranscript
       /\ clientOut' = Append(clientOut,
                              TranscriptMsg(Handled.transcript, FALSE,
                                            Handled.speechFinal, fullTranscript))]_vars

\* C19 witness: "help today" arrived as an interim fragment after "I need" was
\* settled; the transcript is still "I need" and the message says so.
C19_Witness ==
  /\ eventLog = <<Event(INeed, TRUE, TRUE), Event(HelpToday, FALSE, FALSE)>>
  /\ fullTranscript = INeed
  /\ clientOut[Len(clientOut)] = TranscriptMsg(HelpToday, FALSE, FALSE, INeed)

\* the fragments of the documented two-utterance scenario
FirstSentence ==
  <<"F", "i", "r", "s", "t", " ", "s", "e", "n", "t", "e", "n", "c", "e", ".">>
SecondOne == <<"S", "e", "c", "o", "n", "d", " ", "o", "n", "e", ".">>

\* C20: the step that handles a final, speech-final event with a non-blank
\* fragment makes the canonical transcript the old one, a newline if the old
\* one was not empty, then the fragment; "First sentence." then "Second one.",
\* both final and speech-final, give "First sentence.\nSecond one.".
C20_UtteranceAppendsLine ==
  /\ Replay(<<Event(FirstSentence, TRUE, TRUE), Event(SecondOne, TRUE, TRUE)>>)
       = FirstSentence \o <<"\n">> \o SecondOne
  /\ [][(/\ HandlesEvent
         /\ Handled.isFinal
         /\ Handled.speechFinal
         /\ NonBlank(Handled.transcript)) =>
          fullTranscript' =
            IF fullTranscript = <<>> THEN Handled.transcript
            ELSE fullTranscript \o <<"\n">> \o Handled.transcript]_vars

\* C20 witness: two utterances were settled, each on its own line.
C20_Witness ==
  /\ eventLog = <<Event(INeed, TRUE, TRUE), Event(HelpToday, TRUE, TRUE)>>
  /\ fullTranscript = INeed \o <<"\n">> \o HelpToday


\* C21: the step that handles a final event that is not speech-final, with a
\* non-blank fragment, makes the canonical transcript the old one, one space
\* if the old one was not empty, then the fragment; it inserts no newline.
C21_CheckpointAppendsSpace ==
  [][(/\ HandlesEvent
      /\ Handled.isFinal
      /\ ~Handled.speechFinal
      /\ NonBlank(Handled.transcript)) =>
       fullTranscript' =
         IF fullTranscript = <<>> THEN Handled.transcript
         ELSE fullTranscript \o <<" ">> \o Handled.transcript]_vars

\* C21 witness: a mid-utterance checkpoint was joined to a settled line.
C21_Witness ==
  /\ eventLog = <<Event(HelpToday, TRUE, TRUE), Event(INeed, TRUE, FALSE)>>
  /\ fullTranscript = HelpToday \o <<" ">> \o INeed


\* the upstream connection of the current recording failed before it opened
HandshakeFailed ==
  /\ deepgramWs # 0
  /\ sockets[deepgramWs].readyState = "CLOSED"
  /\ ~sockets[deepgramWs].opened

\* C22: a recording whose upstream connection failed during the handshake is
\* never streaming, had no audio frame forwarded, and has no `ready` among the
\* messages sent to the client for it.
C22_HandshakeFailureEndsRecording ==
  HandshakeFailed =>
    /\ ~Streaming
    /\ sockets[deepgramWs].sent = <<>>
    /\ \A i \in OutIndex :
         clientOut[i].rec = NumCreated => clientOut[i].type # "ready"


\* C23: once the relay has sent `error` for a recording whose upstream socket
\* had opened, it sends no `transcript`, `ready` or `stopped` for that
\* recording any more.
C23_NothingFollowsError ==
  \A i, j \in OutIndex :
    (/\ i < j
     /\ clientOut[i].type = "error"
     /\ clientOut[i].rec = clientOut[j].rec
     /\ \E k \in OutIndex :
          k < i /\ clientOut[k].type = "ready" /\ clientOut[k].rec = clientOut[i].rec)
      => clientOut[j].type \notin {"transcript", "ready", "stopped"}


\* C24: the step that handles a binary frame while the upstream socket of the
\* connection is absent, connecting, closing or closed changes nothing: no
\* write reaches any upstream socket, nothing is sent to the client, and a
\* socket that has not opened holds no write.
C24_EarlyOrLateAudioDropped ==
  [][/\ (ignored # "audio" /\ ignored' = "audio") =>
          UNCHANGED <<clientWs, deepgramWs, fullTranscript, sockets, timers,
                      clientOut, lateSend, eventLog, streamed>>
     /\ \A h \in Handles : ~sockets'[h].opened => sockets'[h].sent = <<>>]_vars

\* C24 witness: a frame was dropped before the upstream socket was open; the
\* socket then opened and received only the frames sent after `ready`.
C24_Witness ==
  /\ ignored = "audio"
  /\ Streaming
  /\ streamed # <<>>
  /\ sockets[deepgramWs].sent = streamed
  /\ \A i \in OutIndex : clientOut[i].type = "ready"


\* the step sent a `stopped` message: it handled a `stop`
HandlesStop ==
  /\ Len(clientOut') = Len(clientOut) + 1
  /\ clientOut'[Len(clientOut')].type = "stopped"

\* C25: the step that handles a `stop` while the recording is streaming writes
\* the end-of-stream signal to the upstream socket, arms a timer for it and
\* leaves it open; a final fragment handled afterwards, while the socket has
\* not closed, is still appended to the canonical transcript.
C25_StopDrainsUpstream ==
  [][/\ (HandlesStop /\ Streaming) =>
          /\ sockets' = [sockets EXCEPT ![deepgramWs].sent = Append(@, "CloseStream")]
          /\ sockets'[deepgramWs].readyState = "OPEN"
          /\ timers' = Append(timers, deepgramWs)
     /\ (HandlesEvent /\ StopSeen /\ Handled.isFinal /\ NonBlank(Handled.transcript)) =>
          /\ fullTranscript' # fullTranscript
          /\ IsPrefix(fullTranscript, fullTranscript')]_vars

\* C25 witness: after `ready` and `stopped`, a final fragment arrived during the
\* drain and is in the canonical transcript.
C25_Witness ==
  /\ \E i, j \in OutIndex :
       /\ i < j
       /\ clientOut[i].type = "stopped"
       /\ clientOut[j].type = "transcript"
       /\ clientOut[j].isFinal
       /\ clientOut[i].rec = clientOut[j].rec
       /\ clientOut[i].fullTranscript = <<>>
       /\ fullTranscript = clientOut[j].transcript
  /\ timers # <<>>
  /\ UpstreamOpen


\* C26: every `ready` sent to the client belongs to a recording (a `start` was
\* processed before it), is the only `ready` of that recording, and was sent
\* when the upstream socket of that recording had opened.
C26_ReadyOncePerRecording ==
  \A i \in OutIndex :
    clientOut[i].type = "ready" =>
      /\ clientOut[i].rec \in Handles
      /\ sockets[clientOut[i].rec].opened
      /\ \A j \in OutIndex :
           (clientOut[j].type = "ready" /\ clientOut[j].rec = clientOut[i].rec)
             => j = i


\* C27: the step in which a drain timer fires leaves every upstream socket
\* other than the one that was open when its `stop` was handled as it was, and
\* leaves that one not open.
C27_TimerClosesStoppedHandle ==
  [][(timers # <<>> /\ timers' = Tail(timers)) =>
       /\ \A h \in Handles \ {Head(timers)} : sockets'[h] = sockets[h]
       /\ sockets'[Head(timers)].readyState # "OPEN"]_vars


\* C28: while the upstream socket created by the last `start` has not opened,
\* and so has delivered nothing, the canonical transcript is empty and no
\* `transcript` message was sent for the current recording.
C28_OnlyCurrentUpstreamFeeds ==
  (deepgramWs # 0 /\ ~sockets[deepgramWs].opened) =>
    /\ fullTranscript = <<>>
    /\ \A i \in OutIndex :
         clientOut[i].rec = NumCreated => clientOut[i].type # "transcript"


\* C29: a recording has at most one `stopped` message, its upstream socket
\* received at most one end-of-stream signal, and at most one drain timer is
\* pending for it.
C29_StopHandledOnce ==
  /\ \A i, j \in OutIndex :
       (/\ clientOut[i].type = "stopped"
        /\ clientOut[j].type = "stopped"
        /\ clientOut[i].rec = clientOut[j].rec) => i = j
  /\ \A h \in Handles : \A m, n \in DOMAIN sockets[h].sent :
       (sockets[h].sent[m] = "CloseStream" /\ sockets[h].sent[n] = "CloseStream")
         => m = n
  /\ \A m, n \in DOMAIN timers : timers[m] = timers[n] => m = n


\* the events of the log that settle text: final, with a fragment that is not
\* blank
Settles(ev) == ev.isFinal /\ ~AllWhiteSpace(ev.transcript)
Settled == SelectSeq(eventLog, Settles)

\* the fragments of evs, in order, with the separator seps[i] between the
\* i-th fragment and the next
RECURSIVE Join(_, _)
Join(evs, seps) ==
  IF evs = <<>> THEN <<>>
  ELSE IF seps = <<>> THEN evs[Len(evs)].transcript
  ELSE Join(SubSeq(evs, 1, Len(evs) - 1), SubSeq(seps, 1, Len(seps) - 1))
         \o <<seps[Len(seps)]>> \o evs[Len(evs)].transcript

\* C30: the canonical transcript is empty if no fragment was settled, and
\* otherwise the settled fragments in order with exactly one separator, a space
\* or a newline, between each two: no separator before the first or after the
\* last, and none doubled where a blank fragment was dropped in between.
C30_OneSeparatorBetweenFragments ==
  /\ \E seps \in [1..(Len(Settled) - 1) -> {" ", "\n"}] :
       fullTranscript = Join(Settled, seps)
  /\ Replay(<<Event(INeed, TRUE, FALSE), Event(<<"\t", "\n">>, TRUE, TRUE),
              Event(HelpToday, TRUE, FALSE)>>) = INeed \o <<" ">> \o HelpToday

\* C30 witness: a blank final fragment was dropped before a settled one, and
\* the transcript does not start with a separator.
C30_Witness ==
  /\ eventLog = <<Event(<<"\t", "\n">>, TRUE, TRUE), Event(HelpToday, TRUE, FALSE)>>
  /\ fullTranscript = HelpToday

====
